---------------------------- MODULE Spec2Model ----------------------------
(***************************************************************************)
(* AASHTO 1993 rigid-pavement core of calculate-area-app                   *)
(* (src/aashto_rigid_pavement.py): bisection_method,                       *)
(* calculate_odemark_equivalent_thickness, calculate_composite_k_odemark,  *)
(* calculate_W18_rigid and find_required_thickness.                        *)
(*                                                                         *)
(* Python floats are modelled by binary fixed point: a real v is the       *)
(* integer v * One.  Search positions (slab thickness D, the bracket a, b, *)
(* the midpoint c) are kept on the finer grid v * PosOne, on which the     *)
(* midpoints of the brackets used here are exact.                          *)
(***************************************************************************)
EXTENDS Integers, Sequences, FiniteSets, TLC

-----------------------------------------------------------------------------
(* Fixed-point arithmetic standing for float arithmetic.                   *)

One == 2^14

Abs(x) == IF x < 0 THEN -x ELSE x

Sgn(x) == IF x > 0 THEN 1 ELSE IF x < 0 THEN -1 ELSE 0

Min(x, y) == IF x < y THEN x ELSE y

Max(x, y) == IF x > y THEN x ELSE y

\* decimal literal n/d (d a power of ten), e.g. 1.132 = Dec(1132, 1000)
Dec(n, d) == (n * One) \div d

MulPos(a, b) ==
    (a \div One) * (b \div One) * One + (a \div One) * (b % One)
  + (a % One) * (b \div One) + ((a % One) * (b % One)) \div One

\* x * y
MulFx(a, b) == Sgn(a) * Sgn(b) * MulPos(Abs(a), Abs(b))

RECURSIVE FracBits(_, _, _)
FracBits(r, b, n) ==
    IF n = 0 THEN 0
    ELSE IF 2 * r >= b THEN 2^(n - 1) + FracBits(2 * r - b, b, n - 1)
    ELSE FracBits(2 * r, b, n - 1)

\* the real quotient n / d of two positive integers (or of two fixed-point
\* values), as fixed point
DivPos(n, d) == (n \div d) * One + FracBits(n % d, d, 14)

\* x / y, y # 0
DivFx(a, b) == Sgn(a) * Sgn(b) * DivPos(Abs(a), Abs(b))

RECURSIVE FloorLog2(_)
FloorLog2(n) == IF n < 2 THEN 0 ELSE 1 + FloorLog2(n \div 2)

Mant(n) ==
    LET e == FloorLog2(n)
    IN IF e >= 14 THEN n \div 2^(e - 14) ELSE n * 2^(14 - e)

RECURSIVE LogFrac(_, _)
LogFrac(m, n) ==
    IF n = 0 THEN 0
    ELSE LET s == (m * m) \div One
         IN IF s >= 2 * One THEN 2^(n - 1) + LogFrac(s \div 2, n - 1)
            ELSE LogFrac(s, n - 1)

\* log2 of a positive integer n, as fixed point
Log2Int(n) == FloorLog2(n) * One + LogFrac(Mant(n), 14)

\* log2 of a positive fixed-point value
Log2Fx(x) == Log2Int(x) - 14 * One

\* 2^(2^-j), j = 1..14
Pow2Frac ==
    << 23170, 19484, 17867, 17109, 16743, 16562, 16473,
       16428, 16406, 16395, 16390, 16387, 16385, 16385 >>

RECURSIVE ExpFrac(_, _)
ExpFrac(f, j) ==
    IF j > 14 THEN One
    ELSE LET rest == ExpFrac(f, j + 1)
         IN IF (f \div 2^(14 - j)) % 2 = 1
            THEN (rest * Pow2Frac[j]) \div One
            ELSE rest

\* 2^y
Exp2Fx(y) ==
    LET i == y \div One
        m == ExpFrac(y % One, 1)
    IN IF i >= 0 THEN m * 2^i ELSE m \div 2^(-i)

\* math.log10(x), x > 0
Log10Fx(x) == MulFx(Log2Fx(x), 4932)

\* log10 of a positive integer
Log10Int(n) == MulFx(Log2Int(n), 4932)

\* 10 ** y
Exp10Fx(y) == Exp2Fx(MulFx(y, 54426))

\* x ** (num/den) for x >= 0 and a positive exponent
PowFx(x, num, den) ==
    IF x = 0 THEN 0 ELSE Exp2Fx((Log2Fx(x) * num) \div den)

-----------------------------------------------------------------------------
(* Results of a Python call: a returned number, a returned None, or an     *)
(* exception that leaves the call.                                         *)

Num(v) == [kind |-> "num", val |-> v]

None == [kind |-> "None", val |-> 0]

Raise == [kind |-> "raise", val |-> 0]

-----------------------------------------------------------------------------
(* calculate_odemark_equivalent_thickness (lines 133-182).  A layer is     *)
(* [thickness_inch |-> fixed point, E_psi |-> integer psi]; subgrade_MR is *)
(* an integer psi value >= 0.                                              *)

\* ((1 - nu_subgrade**2) / (1 - nu_concrete**2)) ** (1/3), nu = 0.40, 0.15
poisson_factor ==
    PowFx(DivFx(One - MulFx(Dec(40, 100), Dec(40, 100)),
                One - MulFx(Dec(15, 100), Dec(15, 100))), 1, 3)

layer_valid_nonnegative(layer) == layer.thickness_inch >= 0 /\ layer.E_psi > 0

\* the test of line 163
layer_valid(layer) == layer.thickness_inch > 0 /\ layer.E_psi > 0

\* (E_i / subgrade_MR) ** (1/3)
modulus_ratio(E_i, subgrade_MR) ==
    Exp2Fx((Log2Int(E_i) - Log2Int(subgrade_MR)) \div 3)

\* h_e = h_i * modulus_ratio * poisson_factor
layer_h_e(layer, subgrade_MR) ==
    MulFx(MulFx(layer.thickness_inch, modulus_ratio(layer.E_psi, subgrade_MR)),
          poisson_factor)

layer_detail_swapped(layers, i, subgrade_MR) ==
    [ layer         |-> i,
      h_actual_inch |-> layer_h_e(layers[i], subgrade_MR),
      h_actual_cm   |-> MulFx(layer_h_e(layers[i], subgrade_MR), Dec(254, 100)),
      E_psi         |-> layers[i].E_psi,
      modulus_ratio |-> modulus_ratio(layers[i].E_psi, subgrade_MR),
      h_equiv_inch  |-> layers[i].thickness_inch,
      h_equiv_cm    |-> MulFx(layers[i].thickness_inch, Dec(254, 100)) ]

\* the entry appended to calculation_details for layer i
layer_detail(layers, i, subgrade_MR) ==
    [ layer         |-> i,
      h_actual_inch |-> layers[i].thickness_inch,
      h_actual_cm   |-> MulFx(layers[i].thickness_inch, Dec(254, 100)),
      E_psi         |-> layers[i].E_psi,
      modulus_ratio |-> modulus_ratio(layers[i].E_psi, subgrade_MR),
      h_equiv_inch  |-> layer_h_e(layers[i], subgrade_MR),
      h_equiv_cm    |-> MulFx(layer_h_e(layers[i], subgrade_MR), Dec(254, 100)) ]

\* the loop of lines 159-180 over layers 1..n: h_equivalent_total and
\* calculation_details
RECURSIVE odemark_loop(_, _, _)
odemark_loop(layers, n, subgrade_MR) ==
    IF n = 0 THEN [raised |-> FALSE, total |-> 0, details |-> << >>]
    ELSE LET prev == odemark_loop(layers, n - 1, subgrade_MR)
         IN IF layer_valid(layers[n])
            THEN [ raised  |-> FALSE,
                   total   |-> prev.total + layer_h_e(layers[n], subgrade_MR),
                   details |-> Append(prev.details,
                                      layer_detail(layers, n, subgrade_MR)) ]
            ELSE prev

\* E_i / subgrade_MR (line 166) raises ZeroDivisionError when subgrade_MR = 0;
\* the division is reached at the first layer that passes line 163
odemark_raises(layers, subgrade_MR) ==
    subgrade_MR = 0 /\ \E i \in 1..Len(layers) : layer_valid(layers[i])

OdemarkRaised == [raised |-> TRUE, total |-> 0, details |-> << >>]

odemark_dividing_first(layers, subgrade_MR) ==
    IF subgrade_MR = 0 THEN OdemarkRaised
    ELSE odemark_loop(layers, Len(layers), subgrade_MR)

\* the result is [raised, total, details]; subgrade_MR >= 0
calculate_odemark_equivalent_thickness(layers, subgrade_MR) ==
    IF layers = << >> THEN [raised |-> FALSE, total |-> 0, details |-> << >>]
    ELSE IF odemark_raises(layers, subgrade_MR) THEN OdemarkRaised
    ELSE odemark_loop(layers, Len(layers), subgrade_MR)

-----------------------------------------------------------------------------
(* calculate_composite_k_odemark (lines 185-283).  loss_of_support is a    *)
(* fixed-point value.  The result is [raised, k_effective, k_composite,    *)
(* h_equiv, details]; k_unclamped is the value of k_effective before the   *)
(* clamps of lines 273-274 (in the branch of lines 211-216: the value      *)
(* returned), kept for the claims about the derating factor.               *)

RECURSIVE SumThickness(_, _)
\* sum(layer['thickness_inch'] for layer in layers)
SumThickness(layers, n) ==
    IF n = 0 THEN 0 ELSE SumThickness(layers, n - 1) + layers[n].thickness_inch

\* math.sqrt(E) of an integer E >= 0
SqrtInt(E) == IF E = 0 THEN 0 ELSE Exp2Fx(Log2Int(E) \div 2)

RECURSIVE SumHSqrtE(_, _)
\* sum(layer['thickness_inch'] * math.sqrt(layer['E_psi']) for layer in layers)
SumHSqrtE(layers, n) ==
    IF n = 0 THEN 0
    ELSE SumHSqrtE(layers, n - 1)
         + MulFx(layers[n].thickness_inch, SqrtInt(layers[n].E_psi))

\* math.sqrt raises ValueError on a negative modulus (line 230)
SqrtRaises(layers) == \E i \in 1..Len(layers) : layers[i].E_psi < 0

\* k_subgrade = subgrade_MR / 19.4
k_subgrade_of(subgrade_MR) == DivPos(subgrade_MR * 10, 194)

\* 10 ** (-loss_of_support * 0.3), line 215
ls_factor_no_layers(loss_of_support) ==
    Exp10Fx(-MulFx(loss_of_support, Dec(3, 10)))

ls_factor_raising(loss_of_support) ==
    Exp10Fx(MulFx(loss_of_support, Dec(25, 100)))

\* 10 ** (-loss_of_support * 0.25), line 268
ls_factor(loss_of_support) ==
    Exp10Fx(-MulFx(loss_of_support, Dec(25, 100)))

\* sum_h_sqrt_E / total_h, the square root of E_eq (line 233)
sqrt_E_eq(layers) ==
    DivFx(SumHSqrtE(layers, Len(layers)), SumThickness(layers, Len(layers)))

\* E_ratio ** C3 with E_ratio = E_eq / subgrade_MR (lines 232-246, 254);
\* E_eq = (sum_h_sqrt_E / total_h) ** 2 when total_h > 0, else subgrade_MR
E_ratio_pow_C3(layers, subgrade_MR) ==
    IF SumThickness(layers, Len(layers)) > 0
    THEN IF sqrt_E_eq(layers) = 0 THEN 0
         ELSE Exp2Fx(((2 * Log2Fx(Abs(sqrt_E_eq(layers)))
                       - Log2Int(subgrade_MR)) * 33) \div 100)
    ELSE One

\* E_eq in whole psi, as reported in details['E_equivalent']
E_equivalent(layers, subgrade_MR, h_equiv) ==
    IF h_equiv > 0 /\ SumThickness(layers, Len(layers)) > 0
    THEN LET q == Abs(sqrt_E_eq(layers)) \div 2^10 IN (q * q) \div 2^8
    ELSE subgrade_MR

\* enhancement = 1 + C1 * (D_sb ** C2) * (E_ratio ** C3), line 254
enhancement(layers, subgrade_MR, h_equiv) ==
    One + MulFx(MulFx(Dec(25, 1000), PowFx(h_equiv, 8, 10)),
                E_ratio_pow_C3(layers, subgrade_MR))

k_composite_uncapped(layers, subgrade_MR, h_equiv) ==
    IF h_equiv > 0
    THEN Max(MulFx(k_subgrade_of(subgrade_MR),
                   enhancement(layers, subgrade_MR, h_equiv)),
             k_subgrade_of(subgrade_MR))
    ELSE k_subgrade_of(subgrade_MR)

\* lines 224-261
k_composite_of(layers, subgrade_MR, h_equiv) ==
    IF h_equiv > 0
    THEN Max(Min(MulFx(k_subgrade_of(subgrade_MR),
                       enhancement(layers, subgrade_MR, h_equiv)),
                 1500 * One),
             k_subgrade_of(subgrade_MR))
    ELSE k_subgrade_of(subgrade_MR)

k_effective_ignoring_loss(k_composite, loss_of_support) == k_composite

\* lines 265-270
k_effective_unclamped(k_composite, loss_of_support) ==
    IF loss_of_support > 0
    THEN MulFx(k_composite, ls_factor(loss_of_support))
    ELSE k_composite

\* lines 273-274
clamp_k_effective(k) == Max(Min(k, 1000 * One), 25 * One)

composite_k_no_layers_derated(subgrade_MR, loss_of_support) ==
    LET k_effective ==
            IF loss_of_support > 0
            THEN MulFx(k_subgrade_of(subgrade_MR),
                       ls_factor_no_layers(loss_of_support))
            ELSE k_subgrade_of(subgrade_MR)
    IN [ raised      |-> FALSE,
         k_effective |-> k_effective,
         k_composite |-> k_effective,
         h_equiv     |-> 0,
         k_unclamped |-> k_effective,
         details     |-> [h_equiv |-> 0, layer_details |-> << >>] ]

\* lines 211-216: the return for an empty layer list
composite_k_no_layers(subgrade_MR, loss_of_support) ==
    LET k_subgrade == k_subgrade_of(subgrade_MR)
        k_effective ==
            IF loss_of_support > 0
            THEN MulFx(k_subgrade, ls_factor_no_layers(loss_of_support))
            ELSE k_subgrade
    IN [ raised      |-> FALSE,
         k_effective |-> k_effective,
         k_composite |-> k_subgrade,
         h_equiv     |-> 0,
         k_unclamped |-> k_effective,
         details     |-> [h_equiv |-> 0, layer_details |-> << >>] ]

\* lines 219-283: the return for a non-empty layer list
composite_k_layers(layers, subgrade_MR, loss_of_support) ==
    LET od == calculate_odemark_equivalent_thickness(layers, subgrade_MR)
        h_equiv == od.total
    IN IF h_equiv > 0 /\ SqrtRaises(layers)
       THEN [raised |-> TRUE]
       ELSE LET k_composite == k_composite_of(layers, subgrade_MR, h_equiv)
                k_unclamped ==
                    k_effective_unclamped(k_composite, loss_of_support)
            IN [ raised      |-> FALSE,
                 k_effective |-> clamp_k_effective(k_unclamped),
                 k_composite |-> k_composite,
                 h_equiv     |-> h_equiv,
                 k_unclamped |-> k_unclamped,
                 details     |->
                     [ h_equiv       |-> h_equiv,
                       layer_details |-> od.details,
                       k_subgrade    |-> k_subgrade_of(subgrade_MR),
                       E_equivalent  |->
                           E_equivalent(layers, subgrade_MR, h_equiv) ] ]

calculate_composite_k_odemark(layers, subgrade_MR, loss_of_support) ==
    IF layers = << >>
    THEN composite_k_no_layers(subgrade_MR, loss_of_support)
    ELSE composite_k_layers(layers, subgrade_MR, loss_of_support)

-----------------------------------------------------------------------------
(* calculate_W18_rigid (lines 294-338).  D and the parameters are fixed    *)
(* point, except Ec, an integer psi value.  D >= 0 in this model.          *)

\* the value returned at line 332
Sentinel == -999 * One

\* the calls that raise: math.log10 of delta_PSI / 3.0 <= 0 (line 320),
\* Ec / k with k = 0, and a zero or complex (Ec / k) ** 0.25 (lines 326-331)
W18_raises(params) ==
    params.delta_PSI <= 0 \/ params.k = 0 \/ params.Ec = 0
      \/ Sgn(params.Ec) # Sgn(params.k)

\* term1 = log10(delta_PSI / 3.0) / (1 + 1.624e7 / (D + 1) ** 8.46);
\* the quotient 1.624e7 / (D + 1) ** 8.46 is taken through log2
W18_term1(D, params) ==
    DivFx(Log10Fx(DivFx(params.delta_PSI, 3 * One)),
          One + Exp2Fx(Log2Int(16240000) - (Log2Fx(D + One) * 846) \div 100))

\* D ** 0.75
D_075(D) == PowFx(D, 3, 4)

\* (Ec / k) ** 0.25
Ec_k_ratio(params) == Exp2Fx((Log2Int(params.Ec) - Log2Fx(params.k)) \div 4)

\* inner_num = Sc * Cd * (D_075 - 1.132)
inner_num(D, params) ==
    MulFx(MulFx(params.Sc, params.Cd), D_075(D) - Dec(1132, 1000))

\* inner_denom = 215.63 * J * (D_075 - 18.42 / Ec_k_ratio)
inner_denom(D, params) ==
    MulFx(MulFx(Dec(21563, 100), params.J),
          D_075(D) - DivFx(Dec(1842, 100), Ec_k_ratio(params)))

W18_guard_numerator_only(D, params) == inner_num(D, params) <= 0

\* the domain guard of line 331
W18_guard(D, params) == inner_num(D, params) <= 0 \/ inner_denom(D, params) <= 0

\* line 334 raises when it is reached with inner_denom = 0
\* (ZeroDivisionError) or with a quotient <= 0 (math.log10: ValueError)
term2_raises(D, params) ==
    Sgn(inner_num(D, params)) * Sgn(inner_denom(D, params)) <= 0

\* term2 = (4.22 - 0.32 * pt) * log10(inner_num / inner_denom); the log of
\* the quotient, which is positive here, is taken as the difference of the
\* logs of the absolute values
W18_term2(D, params) ==
    MulFx(Dec(422, 100) - MulFx(Dec(32, 100), params.pt),
          Log10Fx(Abs(inner_num(D, params)))
            - Log10Fx(Abs(inner_denom(D, params))))

\* math.log10 of line 334 is evaluated by the call
W18_log_evaluated(D, params) ==
    ~W18_raises(params) /\ ~W18_guard(D, params) /\ ~term2_raises(D, params)

calculate_W18_rigid(D, params) ==
    IF W18_raises(params) THEN Raise
    ELSE IF W18_guard(D, params) THEN Num(Sentinel)
    ELSE IF term2_raises(D, params) THEN Raise
    ELSE Num(MulFx(params.ZR, params.S0)
             + MulFx(Dec(735, 100), Log10Fx(D + One)) - Dec(6, 100)
             + W18_term1(D, params) + W18_term2(D, params))

-----------------------------------------------------------------------------
(* calculate_W18_rigid at D = 2^j inches, j >= 7, beyond the range of the  *)
(* fixed-point D.  The same expressions, with the powers of D taken        *)
(* through their logarithms and inner_num, inner_denom both divided by     *)
(* D ** 0.75, which leaves their signs and their quotient unchanged.       *)

\* 2^y, 0 where 2^y is below the resolution
Exp2Small(y) == IF y < -16 * One THEN 0 ELSE Exp2Fx(y)

\* log2(D + 1); beyond 2^14 the + 1 is below the resolution
Log2DPlus1(j) == IF j < 14 THEN Log2Int(2^j + 1) ELSE j * One

\* term1, with 1.624e7 / (D + 1) ** 8.46 taken through log2
W18_term1_far(j, params) ==
    DivFx(Log10Fx(DivFx(params.delta_PSI, 3 * One)),
          One + Exp2Small(Log2Int(16240000) - (Log2DPlus1(j) * 846) \div 100))

\* x / D ** 0.75
over_D_075(x, j) == Exp2Small(Log2Fx(x) - (3 * j * One) \div 4)

\* inner_num / D ** 0.75 = Sc * Cd * (1 - 1.132 / D ** 0.75)
inner_num_far(j, params) ==
    MulFx(MulFx(params.Sc, params.Cd), One - over_D_075(Dec(1132, 1000), j))

\* inner_denom / D ** 0.75 = 215.63 * J * (1 - (18.42 / Ec_k_ratio) / D ** 0.75)
inner_denom_far(j, params) ==
    MulFx(MulFx(Dec(21563, 100), params.J),
          One - over_D_075(DivFx(Dec(1842, 100), Ec_k_ratio(params)), j))

\* the domain guard of line 331
W18_guard_far(j, params) ==
    inner_num_far(j, params) <= 0 \/ inner_denom_far(j, params) <= 0

W18_term2_far(j, params) ==
    MulFx(Dec(422, 100) - MulFx(Dec(32, 100), params.pt),
          Log10Fx(inner_num_far(j, params))
            - Log10Fx(inner_denom_far(j, params)))

calculate_W18_rigid_far(j, params) ==
    IF W18_raises(params) THEN Raise
    ELSE IF W18_guard_far(j, params) THEN Num(Sentinel)
    ELSE Num(MulFx(params.ZR, params.S0)
             + MulFx(Dec(735, 100), MulFx(Log2DPlus1(j), 4932)) - Dec(6, 100)
             + W18_term1_far(j, params) + W18_term2_far(j, params))

-----------------------------------------------------------------------------
(* Search positions and the functions handed to bisection_method.  Up to   *)
(* 64 in a position is a point of the grid of step 1 / PosOne in; beyond,  *)
(* the positions are the powers of two: FarBase + i is 64 * 2^i in.  The   *)
(* order of the integers is the order of the positions.                    *)

PosOne == 2^24

\* 64 in, the last position of the grid
FarBase == 2^30

IsFar(pos) == pos > FarBase

\* log2 of a position beyond the grid, in inches
FarExp(pos) == 6 + (pos - FarBase)

\* the position 2^j in, j >= 6
FarPos(j) == FarBase + (j - 6)

\* a position of the grid as a fixed-point thickness
ToFx(pos) == pos \div (PosOne \div One)

\* y - x for x < y, saturated at 64 in, which every width reaching beyond
\* the grid attains
Width(x, y) == IF IsFar(y) THEN FarBase ELSE y - x

\* x * x / PosOne for a position x >= 0, by 12-bit limbs
SqPos(x) ==
    LET x1 == x \div 2^12
        x0 == x % 2^12
    IN x1 * x1 + (2 * x1 * x0) \div 2^12 + (x0 * x0) \div 2^24

\* tol = num / den
DefaultTol == [num |-> 1, den |-> 10^6]

\* v / scale < tol, for an integer v
LessTol(v, scale, tol) == v <= (tol.num * scale - 1) \div tol.den

\* objective of find_required_thickness (lines 355-356)
objective(pos, params, log_W18_design) ==
    LET w == IF IsFar(pos) THEN calculate_W18_rigid_far(FarExp(pos), params)
             ELSE calculate_W18_rigid(ToFx(pos), params)
    IN IF w.kind = "raise" THEN Raise ELSE Num(w.val - log_W18_design)

\* func(x): the objective, or one of the functions f(x) = x - r,
\* f(x) = r - x, f(x) = x^2 - 4 on which bisection_method is exercised
Apply(func, pos, params, log_W18_design) ==
    CASE func.id = "objective" -> objective(pos, params, log_W18_design)
      [] func.id = "lin" -> Num(pos - func.r)
      [] func.id = "neg" -> Num(func.r - pos)
      [] func.id = "sq4" -> Num(SqPos(pos) - 4 * PosOne)

\* the unit of the values of func
ValOne(func) == IF func.id = "objective" THEN One ELSE PosOne

Objective == [id |-> "objective", r |-> 0]

-----------------------------------------------------------------------------
(* State.                                                                  *)

VARIABLES
    pc,              \* control point of the call being run
    caller,          \* "frt": bisection_method runs inside
                     \* find_required_thickness; "direct": called directly
    W18_design,      \* find_required_thickness: arguments
    params,
    D_min,
    D_max,
    log_W18_design,  \* find_required_thickness: locals
    f_min,
    f_max,
    func,            \* bisection_method: arguments and locals
    a,
    b,
    tol,
    max_iter,
    fa,
    fb,
    iter,            \* iterations of the for loop completed
    result,          \* what the call returned (or "pending")
    evalAt,          \* history: the positions at which func was evaluated
    sentinelSeen,    \* history: calculate_W18_rigid returned -999
    bisCalled,       \* history: bisection_method was invoked
    byLoop,          \* history: the return came from line 39
    layers,          \* calculate_composite_k_odemark: arguments
    subgrade_MR,
    loss_of_support,
    kpc,             \* "idle" before the call, "returned" after it
    kret,            \* what the call returned
    opc,             \* calculate_odemark_equivalent_thickness called
                     \* directly: "idle" before the call, "returned" after
    oret,            \* what that call returned
    wD,              \* calculate_W18_rigid called directly: the argument D
    wpc,             \* "idle" before the call, "returned" after it
    wret,            \* what that call returned
    wlog,            \* history: the call evaluated math.log10 at line 334
    D_required,      \* design page: what find_required_thickness returned
    D_design_inch,   \* design page: the design thickness, in 1/127 in
    D_design_cm,     \* design page: the design thickness, in whole cm
    dpc,             \* "idle" before lines 701-718, "selected" after them
    traffic_df,      \* calculate_esal: arguments
    truck_factors,
    lane_factor,
    direction_factor,
    epc,             \* "idle" before the call, "returned" after it
    eret,            \* what the call returned
    selection,       \* ESAL calculator: pavement_type, pt and param of
                     \* the sidebar (lines 249-274)
    session_state,   \* st.session_state: tf_key -> code -> truck factor
    widget_state,    \* the values the runtime holds for the number
                     \* inputs: widget -> value
    frontend,        \* the values the browser holds for the number
                     \* inputs it shows: widget -> value
    button,          \* the reset button was pressed for the coming run
    upc,             \* "pending": a script run is due; "ready": the run
                     \* is complete and the page waits for the user
    events,          \* the number of user events so far
    resetRerun,      \* history: st.rerun() of line 301 asked for the run
    afterReset       \* history: the run just completed was that rerun

frtVars == <<W18_design, params, D_min, D_max, log_W18_design, f_min, f_max>>

bisVars == <<func, a, b, tol, max_iter, fa, fb, iter>>

histVars == <<evalAt, sentinelSeen, bisCalled, byLoop>>

kVars == <<layers, subgrade_MR, loss_of_support, kpc, kret, opc, oret>>

wVars == <<wD, wpc, wret, wlog>>

designVars == <<D_required, D_design_inch, D_design_cm, dpc>>

esalVars == <<traffic_df, truck_factors, lane_factor, direction_factor, epc,
              eret>>

uiVars == <<selection, session_state, widget_state, frontend, button, upc,
            events, resetRerun, afterReset>>

pageVars == <<designVars, esalVars, uiVars>>

vars == <<pc, caller, result, frtVars, bisVars, histVars, kVars, wVars,
          pageVars>>

Pending == [kind |-> "pending", val |-> 0]

-----------------------------------------------------------------------------
(* bisection_method (lines 13-48).                                         *)

default_max_iter_doubled == 2 * 100

\* max_iter=100, the default of line 13
default_max_iter == 100

same_sign_or_zero(x, y) == Sgn(x) * Sgn(y) >= 0

\* the test of line 30, fa * fb > 0, by signs
same_sign(x, y) == Sgn(x) * Sgn(y) > 0

\* the test of line 41, fa * fc < 0, by signs
opposite_sign(x, y) == Sgn(x) * Sgn(y) < 0

midpoint_unhalved(x, y) == IF IsFar(y) THEN y - 1 ELSE x + y

\* c = (a + b) / 2; for b = 2^j in beyond the grid and a <= 64 in the sum
\* rounds to the position 2^(j-1) in, which is the exact midpoint for a = 0
midpoint(x, y) == IF IsFar(y) THEN y - 1 ELSE (x + y) \div 2

\* for _ in range(max_iter): another iteration follows i completed ones
loop_continues_off_by_one(i, n) == i <= n

loop_continues(i, n) == i < n

converged_on_value_only(fc, x, y, f, t) == LessTol(Abs(fc), ValOne(f), t)

\* the test of line 38
converged(fc, x, y, f, t) ==
    LessTol(Abs(fc), ValOne(f), t) \/ LessTol(Width(x, y), 2 * PosOne, t)

\* a value leaves bisection_method: to the caller of the direct call, or
\* through lines 369-372 of find_required_thickness
Return(v) ==
    /\ pc' = "done"
    /\ result' = IF caller = "frt" /\ v.kind = "raise" THEN None ELSE v

IsSentinel(f, v) == f.id = "objective" /\ v.kind = "num"
                      /\ v.val = Sentinel - log_W18_design

\* lines 27-32
Bis_Start ==
    /\ pc = "bis_start"
    /\ LET ra == Apply(func, a, params, log_W18_design)
           rb == Apply(func, b, params, log_W18_design)
       IN IF ra.kind = "raise" \/ rb.kind = "raise"
          THEN /\ Return(Raise)
               /\ UNCHANGED <<fa, fb, iter, evalAt, sentinelSeen>>
          ELSE /\ fa' = ra.val
               /\ fb' = rb.val
               /\ evalAt' = evalAt \o <<a, b>>
               /\ sentinelSeen' = (sentinelSeen \/ IsSentinel(func, ra)
                                     \/ IsSentinel(func, rb))
               /\ iter' = 0
               /\ IF same_sign(ra.val, rb.val)
                  THEN Return(None)
                  ELSE pc' = "bis_loop" /\ UNCHANGED result
    /\ UNCHANGED <<caller, frtVars, func, a, b, tol, max_iter, bisCalled,
                   byLoop, kVars, wVars, pageVars>>

\* lines 34-48: one iteration of the loop, or, the loop being exhausted,
\* the return of line 48
Bis_Loop ==
    /\ pc = "bis_loop"
    /\ IF loop_continues(iter, max_iter)
       THEN LET c == midpoint(a, b)
                rc == Apply(func, c, params, log_W18_design)
            IN IF rc.kind = "raise"
               THEN /\ Return(Raise)
                    /\ UNCHANGED <<a, b, fa, fb, iter, evalAt, sentinelSeen,
                                   byLoop>>
               ELSE /\ evalAt' = Append(evalAt, c)
                    /\ sentinelSeen' = (sentinelSeen \/ IsSentinel(func, rc))
                    /\ IF converged(rc.val, a, b, func, tol)
                       THEN /\ Return(Num(c))
                            /\ byLoop' = TRUE
                            /\ UNCHANGED <<a, b, fa, fb, iter>>
                       ELSE /\ IF opposite_sign(fa, rc.val)
                               THEN /\ b' = c /\ fb' = rc.val
                                    /\ UNCHANGED <<a, fa>>
                               ELSE /\ a' = c /\ fa' = rc.val
                                    /\ UNCHANGED <<b, fb>>
                            /\ iter' = iter + 1
                            /\ UNCHANGED <<pc, result, byLoop>>
       ELSE /\ Return(Num(midpoint(a, b)))
            /\ UNCHANGED <<a, b, fa, fb, iter, histVars>>
    /\ UNCHANGED <<caller, frtVars, func, tol, max_iter, bisCalled, kVars,
                   wVars, pageVars>>

-----------------------------------------------------------------------------
(* find_required_thickness (lines 341-372).                                *)

\* line 353, outside the try: math.log10 raises on W18_design <= 0
FRT_Start ==
    /\ pc = "frt_start"
    /\ IF W18_design <= 0
       THEN pc' = "done" /\ result' = Raise /\ UNCHANGED log_W18_design
       ELSE /\ pc' = "frt_fmin"
            /\ log_W18_design' = Log10Int(W18_design)
            /\ UNCHANGED result
    /\ UNCHANGED <<caller, W18_design, params, D_min, D_max, f_min, f_max,
                   bisVars, histVars, kVars, wVars, pageVars>>

\* line 360; an exception is caught at line 371
FRT_EvalMin ==
    /\ pc = "frt_fmin"
    /\ LET r == objective(D_min, params, log_W18_design)
       IN IF r.kind = "raise"
          THEN /\ pc' = "done" /\ result' = None
               /\ UNCHANGED <<f_min, evalAt, sentinelSeen>>
          ELSE /\ pc' = "frt_fmax"
               /\ f_min' = r.val
               /\ evalAt' = Append(evalAt, D_min)
               /\ sentinelSeen' = (sentinelSeen \/ IsSentinel(Objective, r))
               /\ UNCHANGED result
    /\ UNCHANGED <<caller, W18_design, params, D_min, D_max, log_W18_design,
                   f_max, bisVars, bisCalled, byLoop, kVars, wVars, pageVars>>

\* line 361
FRT_EvalMax ==
    /\ pc = "frt_fmax"
    /\ LET r == objective(D_max, params, log_W18_design)
       IN IF r.kind = "raise"
          THEN /\ pc' = "done" /\ result' = None
               /\ UNCHANGED <<f_max, evalAt, sentinelSeen>>
          ELSE /\ pc' = "frt_decide"
               /\ f_max' = r.val
               /\ evalAt' = Append(evalAt, D_max)
               /\ sentinelSeen' = (sentinelSeen \/ IsSentinel(Objective, r))
               /\ UNCHANGED result
    /\ UNCHANGED <<caller, W18_design, params, D_min, D_max, log_W18_design,
                   f_min, bisVars, bisCalled, byLoop, kVars, wVars, pageVars>>

frt_decision_without_min(fmin, fmax) ==
    IF fmax < 0 THEN "max" ELSE "bisect"

\* the decision of lines 363-369: "min", "max" or "bisect"
frt_decision(fmin, fmax) ==
    IF fmin > 0 THEN "min" ELSE IF fmax < 0 THEN "max" ELSE "bisect"

exceeds_max_without_margin(dmax) == dmax

\* the value returned at line 366; beyond the grid D_max + 1 rounds to D_max
exceeds_max(dmax) == IF IsFar(dmax) THEN dmax ELSE dmax + PosOne

\* lines 363-369
FRT_Decide ==
    /\ pc = "frt_decide"
    /\ LET d == frt_decision(f_min, f_max)
       IN IF d = "min"
          THEN /\ pc' = "done" /\ result' = Num(D_min)
               /\ UNCHANGED <<bisVars, bisCalled>>
          ELSE IF d = "max"
          THEN /\ pc' = "done" /\ result' = Num(exceeds_max(D_max))
               /\ UNCHANGED <<bisVars, bisCalled>>
          ELSE /\ pc' = "bis_start"
               /\ func' = Objective
               /\ a' = D_min
               /\ b' = D_max
               /\ tol' = DefaultTol
               /\ max_iter' = default_max_iter
               /\ bisCalled' = TRUE
               /\ UNCHANGED <<result, fa, fb, iter>>
    /\ UNCHANGED <<caller, frtVars, evalAt, sentinelSeen, byLoop, kVars,
                   wVars, pageVars>>

-----------------------------------------------------------------------------
(* The call of calculate_composite_k_odemark.                              *)

K_Call_dropping_skipped ==
    /\ kpc = "idle"
    /\ kpc' = "returned"
    /\ kret' = calculate_composite_k_odemark(layers, subgrade_MR,
                                             loss_of_support)
    /\ layers' = SelectSeq(layers, layer_valid)
    /\ UNCHANGED <<pc, caller, result, frtVars, bisVars, histVars,
                   subgrade_MR, loss_of_support, opc, oret, wVars, pageVars>>

K_Call ==
    /\ kpc = "idle"
    /\ kpc' = "returned"
    /\ kret' = calculate_composite_k_odemark(layers, subgrade_MR,
                                             loss_of_support)
    /\ UNCHANGED <<pc, caller, result, frtVars, bisVars, histVars, layers,
                   subgrade_MR, loss_of_support, opc, oret, wVars, pageVars>>

\* the call of calculate_odemark_equivalent_thickness
O_Call ==
    /\ opc = "idle"
    /\ opc' = "returned"
    /\ oret' = calculate_odemark_equivalent_thickness(layers, subgrade_MR)
    /\ UNCHANGED <<pc, caller, result, frtVars, bisVars, histVars, layers,
                   subgrade_MR, loss_of_support, kpc, kret, wVars, pageVars>>

\* the call of calculate_W18_rigid
W_Call ==
    /\ wpc = "idle"
    /\ wpc' = "returned"
    /\ wret' = calculate_W18_rigid(wD, params)
    /\ wlog' = W18_log_evaluated(wD, params)
    /\ UNCHANGED <<pc, caller, result, frtVars, bisVars, histVars, kVars, wD,
                   pageVars>>

-----------------------------------------------------------------------------
(* Inputs.                                                                 *)

\* design parameters: reliability 90 %, S0 0.35, pt 2.5, Sc 600 psi, Cd 1.0,
\* J 2.8, and the given Ec (psi), k (pci) and delta_PSI (tenths)
ParamsOf(Ec, k, dpsi10) ==
    [ ZR |-> -Dec(1282, 1000), S0 |-> Dec(35, 100), pt |-> Dec(25, 10),
      Sc |-> 600 * One, Cd |-> One, J |-> Dec(28, 10),
      Ec |-> Ec, k |-> k * One, delta_PSI |-> Dec(dpsi10, 10) ]

\* the last three make calculate_W18_rigid raise
ParamChoices ==
    { ParamsOf(Ec, k, 20) : Ec \in {3670559, 200000, 50000, 10000},
                            k \in {50, 200, 1000} }
      \cup {ParamsOf(3670559, 200, 0), ParamsOf(3670559, 0, 20),
            ParamsOf(0, 200, 20)}

W18Choices ==
    {0, 10^5, 10^6, 10^7, 5 * 10^7, 25 * 10^7, 10^9, 2 * 10^9}

\* <<D_min, D_max>> in inches; <<6, 20>> is the default
BracketChoices == {<<6, 20>>, <<8, 12>>}

WideExp == 90

\* a bracket of two neighbouring positions, D_min = 18723 / 1024 in being
\* an even one: no position lies between them and (D_min + D_max) / 2
\* rounds to D_min
AdjacentBracket == <<18723 * 2^14, 18723 * 2^14 + 1>>

\* the brackets as positions, the wide bracket [0, 2^WideExp] in and the
\* bracket of two neighbouring positions
BracketPositions ==
    {<<br[1] * PosOne, br[2] * PosOne>> : br \in BracketChoices}
      \cup {<<0, FarPos(WideExp)>>, AdjacentBracket}

NoParams == ParamsOf(3670559, 200, 20)

NoLayers == << >>

IdleK ==
    /\ layers = NoLayers
    /\ subgrade_MR = 7500
    /\ loss_of_support = 0
    /\ kpc = "idle"
    /\ kret = [raised |-> FALSE]
    /\ opc = "idle"
    /\ oret = [raised |-> FALSE]

IdleW ==
    /\ wD = 0
    /\ wpc = "idle"
    /\ wret = Pending
    /\ wlog = FALSE

NoTraffic == [columns |-> {}, rows |-> << >>]

NoFactors == [code \in {} |-> 0]

IdleEsal ==
    /\ traffic_df = NoTraffic
    /\ truck_factors = NoFactors
    /\ lane_factor = 1
    /\ direction_factor = 2
    /\ epc = "idle"
    /\ eret = [total_esal |-> 0]

\* the first options of the select boxes (lines 249-266)
FirstSelection == [pavement_type |-> "rigid", pt |-> 25, param |-> 10]

NoState == [x \in {} |-> 0]

\* the ESAL calculator is not open
IdleUi ==
    /\ selection = FirstSelection
    /\ session_state = NoState
    /\ widget_state = NoState
    /\ frontend = NoState
    /\ button = FALSE
    /\ upc = "closed"
    /\ events = 0
    /\ resetRerun = FALSE
    /\ afterReset = FALSE

IdleDesign ==
    /\ D_required = None
    /\ D_design_inch = 0
    /\ D_design_cm = 0
    /\ dpc = "idle"

IdlePage ==
    /\ IdleDesign
    /\ IdleEsal
    /\ IdleUi

IdleHist ==
    /\ evalAt = << >>
    /\ sentinelSeen = FALSE
    /\ bisCalled = FALSE
    /\ byLoop = FALSE

\* a call find_required_thickness(W18_design, params, D_min, D_max)
Init ==
    /\ pc = "frt_start"
    /\ caller = "frt"
    /\ W18_design \in W18Choices
    /\ params \in ParamChoices
    /\ \E br \in BracketPositions : D_min = br[1] /\ D_max = br[2]
    /\ log_W18_design = 0
    /\ f_min = 0
    /\ f_max = 0
    /\ func = Objective
    /\ a = 0
    /\ b = 0
    /\ tol = DefaultTol
    /\ max_iter = default_max_iter
    /\ fa = 0
    /\ fb = 0
    /\ iter = 0
    /\ result = Pending
    /\ IdleHist
    /\ IdleK
    /\ IdleW
    /\ IdlePage

Next ==
    \/ FRT_Start
    \/ FRT_EvalMin
    \/ FRT_EvalMax
    \/ FRT_Decide
    \/ Bis_Start
    \/ Bis_Loop

Spec == Init /\ [][Next]_vars

-----------------------------------------------------------------------------
(* A direct call bisection_method(func, a, b, tol, max_iter).              *)

MaxIterSmall == 3

MaxRoot == 5

TestFuncs ==
    {[id |-> "sq4", r |-> 0]}
      \cup {[id |-> "lin", r |-> n * PosOne] : n \in 0..MaxRoot}
      \cup {[id |-> "neg", r |-> n * PosOne] : n \in 0..MaxRoot}
      \cup {[id |-> "lin", r |-> PosOne \div 3], [id |-> "neg", r |-> (7 * PosOne) \div 3]}

TolChoices == {DefaultTol, [num |-> 1, den |-> 100], [num |-> 0, den |-> 1]}

MaxIterChoices == (0..MaxIterSmall) \cup {100}

BisBrackets == {<<0, 3>>, <<0, 4>>, <<1, 2>>}

InitBis ==
    /\ pc = "bis_start"
    /\ caller = "direct"
    /\ W18_design = 1
    /\ params = NoParams
    /\ D_min = 0
    /\ D_max = 0
    /\ log_W18_design = 0
    /\ f_min = 0
    /\ f_max = 0
    /\ func \in TestFuncs
    /\ \E br \in BisBrackets : a = br[1] * PosOne /\ b = br[2] * PosOne
    /\ tol \in TolChoices
    /\ max_iter \in MaxIterChoices
    /\ fa = 0
    /\ fb = 0
    /\ iter = 0
    /\ result = Pending
    /\ IdleHist
    /\ IdleK
    /\ IdleW
    /\ IdlePage

NextBis ==
    \/ Bis_Start
    \/ Bis_Loop

SpecBis == InitBis /\ [][NextBis]_vars

-----------------------------------------------------------------------------
(* A call calculate_composite_k_odemark(layers, subgrade_MR, LS).          *)

MaxLayers == 2

\* <<thickness in half inches, E_psi>>: materials of the catalogue (lines
\* 105-113) and layers that line 163 skips
LayerChoices ==
    { [thickness_inch |-> (h[1] * One) \div 2, E_psi |-> h[2]] :
        h \in { <<4, 362500>>, <<16, 174000>>, <<12, 21750>>, <<1, 21750>>,
                <<0, 50750>>, <<8, 0>>, <<8, -100>>, <<-4, 21750>> } }

RECURSIVE SeqsUpTo(_, _)
SeqsUpTo(S, n) ==
    IF n = 0 THEN {<< >>}
    ELSE LET shorter == SeqsUpTo(S, n - 1)
         IN shorter \cup {Append(q, x) : q \in shorter, x \in S}

MRChoices == {100, 300, 1500, 7500, 25000, 30000}

\* loss_of_support in halves
LSChoices == {(n * One) \div 2 : n \in {-2, 0, 1, 2, 4, 6}}

InitK ==
    /\ pc = "idle"
    /\ caller = "direct"
    /\ W18_design = 1
    /\ params = NoParams
    /\ D_min = 0
    /\ D_max = 0
    /\ log_W18_design = 0
    /\ f_min = 0
    /\ f_max = 0
    /\ func = Objective
    /\ a = 0
    /\ b = 0
    /\ tol = DefaultTol
    /\ max_iter = 100
    /\ fa = 0
    /\ fb = 0
    /\ iter = 0
    /\ result = Pending
    /\ IdleHist
    /\ layers \in SeqsUpTo(LayerChoices, MaxLayers)
    /\ subgrade_MR \in MRChoices
    /\ loss_of_support \in LSChoices
    /\ kpc = "idle"
    /\ kret = [raised |-> FALSE]
    /\ opc = "idle"
    /\ oret = [raised |-> FALSE]
    /\ IdleW
    /\ IdlePage

NextK == K_Call

SpecK == InitK /\ [][NextK]_vars

-----------------------------------------------------------------------------
(* A call calculate_odemark_equivalent_thickness(layers, subgrade_MR).     *)

\* the subgrade moduli of MRChoices and a zero modulus
OdemarkMRChoices == MRChoices \cup {0}

InitO ==
    /\ pc = "idle"
    /\ caller = "direct"
    /\ W18_design = 1
    /\ params = NoParams
    /\ D_min = 0
    /\ D_max = 0
    /\ log_W18_design = 0
    /\ f_min = 0
    /\ f_max = 0
    /\ func = Objective
    /\ a = 0
    /\ b = 0
    /\ tol = DefaultTol
    /\ max_iter = 100
    /\ fa = 0
    /\ fb = 0
    /\ iter = 0
    /\ result = Pending
    /\ IdleHist
    /\ layers \in SeqsUpTo(LayerChoices, MaxLayers)
    /\ subgrade_MR \in OdemarkMRChoices
    /\ loss_of_support = 0
    /\ kpc = "idle"
    /\ kret = [raised |-> FALSE]
    /\ opc = "idle"
    /\ oret = [raised |-> FALSE]
    /\ IdleW
    /\ IdlePage

NextO == O_Call

SpecO == InitO /\ [][NextO]_vars

-----------------------------------------------------------------------------
(* A call calculate_W18_rigid(D, params).                                  *)

MaxQuarterD == 80

\* D from 0 to 20 in by quarter inches
WDChoices == {(n * One) \div 4 : n \in 0..MaxQuarterD}

InitW ==
    /\ pc = "idle"
    /\ caller = "direct"
    /\ W18_design = 1
    /\ params \in ParamChoices
    /\ D_min = 0
    /\ D_max = 0
    /\ log_W18_design = 0
    /\ f_min = 0
    /\ f_max = 0
    /\ func = Objective
    /\ a = 0
    /\ b = 0
    /\ tol = DefaultTol
    /\ max_iter = 100
    /\ fa = 0
    /\ fb = 0
    /\ iter = 0
    /\ result = Pending
    /\ IdleHist
    /\ IdleK
    /\ wD \in WDChoices
    /\ wpc = "idle"
    /\ wret = Pending
    /\ wlog = FALSE
    /\ IdlePage

NextW == W_Call

SpecW == InitW /\ [][NextW]_vars

FairSpecBis == SpecBis /\ WF_vars(NextBis)

-----------------------------------------------------------------------------
(* Properties of find_required_thickness (under Spec).                     *)

\* C1: when objective(D_min) > 0 the call returns exactly D_min, the
\* objective has been evaluated at D_min and D_max only, and
\* bisection_method is never invoked.
C1_MinSufficient ==
    f_min > 0 =>
        /\ ~bisCalled
        /\ pc \in {"frt_fmax", "frt_decide", "done"}
        /\ evalAt \in {<<D_min>>, <<D_min, D_max>>}
        /\ pc = "done" => result = Num(D_min) /\ evalAt = <<D_min, D_max>>

C1_Witness == pc = "done" /\ f_min > 0 /\ result = Num(D_min)

C3_SentinelGivesNone == (pc = "done" /\ sentinelSeen) => result = None

\* C19 as claimed: one call of find_required_thickness evaluates
\* calculate_W18_rigid at most 100 times, the two boundary evaluations, the
\* two endpoint evaluations of bisection_method and the midpoints included,
\* for any bracket.
C19_Original == caller = "frt" => Len(evalAt) <= 100

\* C19 as amended: at most 2 + 2 + max_iter = 104 times.
C19_EvaluationBound ==
    caller = "frt" =>
        /\ Len(evalAt) <= 2 + 2 + 100
        /\ ~bisCalled => Len(evalAt) <= 2
        /\ bisCalled => Len(evalAt) <= 2 + 2 + iter + 1
        /\ iter <= 100

C19_Witness ==
    /\ pc = "done" /\ caller = "frt" /\ bisCalled /\ iter = 100
    /\ Len(evalAt) = 2 + 2 + 100
    /\ result.kind = "num"

-----------------------------------------------------------------------------
(* Properties of bisection_method (under SpecBis).                         *)

\* the root of a test function
RootOf(f) == IF f.id = "sq4" THEN 2 * PosOne ELSE f.r

\* the value of func at a position
ValueAt(f, pos) == Apply(f, pos, params, log_W18_design).val

\* the returned x has |f(x)| < tol or lies within tol of the root
NearRoot ==
    \/ LessTol(Abs(ValueAt(func, result.val)), ValOne(func), tol)
    \/ LessTol(Abs(result.val - RootOf(func)), PosOne, tol)

\* C4: with the default tol and max_iter, whenever the call does not return
\* None (f(a) * f(b) <= 0, f(a) = 0 and f(b) = 0 included) the returned x has
\* |f(x)| < tol or lies within tol of a root of f in [a, b].
C4_ReturnsRoot ==
    (pc = "done" /\ caller = "direct" /\ result.kind = "num"
       /\ tol = DefaultTol /\ max_iter = 100) => NearRoot

\* C5: when f(a) * f(b) > 0 the call returns None having evaluated f at a
\* and b only; when f(a) * f(b) <= 0 it never returns None.
C5_NoRootIndicator ==
    (pc = "done" /\ caller = "direct") =>
        LET fa0 == ValueAt(func, evalAt[1])
            fb0 == ValueAt(func, evalAt[2])
        IN /\ Sgn(fa0) * Sgn(fb0) > 0 =>
                result = None /\ evalAt = <<a, b>> /\ iter = 0
           /\ Sgn(fa0) * Sgn(fb0) <= 0 => result.kind = "num"

C5_Witness ==
    /\ pc = "done" /\ caller = "direct" /\ result = None
    /\ evalAt = <<a, b>>

\* C6: the call ends; the loop makes at most max_iter iterations, and when
\* no tolerance test fired the call returns the midpoint of the final
\* bracket, not a failure.
C6_Terminates ==
    /\ [](/\ iter <= max_iter
          /\ Len(evalAt) <= 2 + max_iter
          /\ (pc = "done" /\ result # None /\ ~byLoop) =>
                iter = max_iter /\ result = Num((a + b) \div 2))
    /\ <>(pc = "done")

C6_Witness ==
    /\ pc = "done" /\ ~byLoop /\ max_iter > 0 /\ iter = max_iter
    /\ result = Num((a + b) \div 2)

-----------------------------------------------------------------------------
(* Properties of calculate_composite_k_odemark (under SpecK).              *)

Returned == kpc = "returned" /\ ~kret.raised

\* C7 as claimed: k_subgrade <= k_composite <= 1500 for every
\* subgrade_MR > 0, every layer list and every loss_of_support.
C7_Original ==
    Returned =>
        /\ DivPos(subgrade_MR * 10, 194) <= kret.k_composite
        /\ kret.k_composite <= 1500 * One

\* C7 as amended: k_subgrade <= k_composite <= max(1500, k_subgrade).
C7_CompositeBounds ==
    Returned =>
        /\ DivPos(subgrade_MR * 10, 194) <= kret.k_composite
        /\ kret.k_composite <= Max(1500 * One, DivPos(subgrade_MR * 10, 194))

C7_Witness ==
    /\ Returned /\ layers # << >>
    /\ DivPos(subgrade_MR * 10, 194) < 1500 * One
    /\ kret.k_composite = 1500 * One

\* C8: the returned k_effective lies in [25, 1000] for every layer list
\* (the empty one included) and every loss_of_support >= 0.
C8_EffectiveRange ==
    (Returned /\ loss_of_support >= 0) =>
        25 * One <= kret.k_effective /\ kret.k_effective <= 1000 * One

\* C9 as claimed: k_effective <= k_composite for every loss_of_support >= 0.
C9_Original ==
    (Returned /\ loss_of_support >= 0) => kret.k_effective <= kret.k_composite

\* C9 as amended: k_effective <= max(k_composite, 25).
C9_EffectiveBelowComposite ==
    (Returned /\ loss_of_support >= 0) =>
        kret.k_effective <= Max(kret.k_composite, 25 * One)

C9_Witness ==
    /\ Returned /\ layers # << >> /\ loss_of_support > 0
    /\ kret.k_composite >= 25 * One
    /\ kret.k_effective < kret.k_composite

\* C10: for loss_of_support > 0, k_effective before clamping is
\* k_composite * 10^(-0.25 * LS), whether the layer list is empty or not.
C10_SameFactor ==
    (Returned /\ loss_of_support > 0) =>
        kret.k_unclamped
          = MulFx(kret.k_composite,
                  Exp10Fx(-MulFx(loss_of_support, Dec(25, 100))))

\* C11: with loss_of_support = 0, k_effective is k_composite clamped to
\* [25, 1000] (hence k_composite itself when 25 <= k_composite <= 1000), for
\* every layer list, the empty one included.
C11_ZeroLossClamped ==
    (Returned /\ loss_of_support = 0) =>
        kret.k_effective = Max(Min(kret.k_composite, 1000 * One), 25 * One)

\* k_effective of the same layers and subgrade under another loss of support
KEffectiveAt(ls) ==
    calculate_composite_k_odemark(layers, subgrade_MR, ls).k_effective

\* the losses of support of [0, 3] above the one of the call
LargerLS == {ls \in LSChoices : loss_of_support < ls /\ ls <= 3 * One}

\* C12 as claimed: for fixed layers and subgrade_MR, k_effective is strictly
\* decreasing in loss_of_support over [0, 3].
C12_Original ==
    (Returned /\ loss_of_support >= 0) =>
        \A ls \in LargerLS : KEffectiveAt(ls) < kret.k_effective

\* C12 as amended: k_effective is non-increasing in loss_of_support over
\* [0, 3], and strictly decreasing unless the clamp holds both values at the
\* same end of [25, 1000].
C12_NonIncreasing ==
    (Returned /\ loss_of_support >= 0) =>
        \A ls \in LargerLS :
            /\ KEffectiveAt(ls) <= kret.k_effective
            /\ \/ KEffectiveAt(ls) < kret.k_effective
               \/ kret.k_effective = 25 * One
               \/ KEffectiveAt(ls) = 1000 * One

C12_Witness ==
    /\ Returned /\ layers # << >> /\ loss_of_support = One \div 2
    /\ kret.k_effective < 1000 * One
    /\ \A ls \in LargerLS :
          25 * One < KEffectiveAt(ls) /\ KEffectiveAt(ls) < kret.k_effective

\* C14: on an empty layer list the call returns k_composite = k_subgrade =
\* subgrade_MR / 19.4 and equivalent thickness 0, for every loss_of_support.
C14_EmptyGivesSubgrade ==
    (kpc = "returned" /\ layers = << >>) =>
        /\ ~kret.raised
        /\ kret.k_composite = DivPos(subgrade_MR * 10, 194)
        /\ kret.h_equiv = 0
        /\ kret.details.layer_details = << >>

C14_Witness ==
    /\ kpc = "returned" /\ layers = << >> /\ loss_of_support > 0
    /\ kret.k_effective < kret.k_composite
    /\ kret.k_composite = DivPos(subgrade_MR * 10, 194)

\* C18: for subgrade_MR > 0 the call never raises, whatever the layer list:
\* layers with zero or negative thickness or modulus next to valid layers
\* included, a result is returned.
C18_NeverRaises == (kpc = "returned" /\ subgrade_MR > 0) => ~kret.raised

-----------------------------------------------------------------------------
(* Properties of calculate_odemark_equivalent_thickness (under SpecO).     *)

\* C13: on an empty layer list the call returns total 0 and an empty
\* breakdown without raising, for every subgrade_MR, zero included.
C13_EmptyList ==
    (opc = "returned" /\ layers = << >>) =>
        oret = [raised |-> FALSE, total |-> 0, details |-> << >>]

C13_Witness ==
    /\ opc = "returned" /\ layers = << >> /\ subgrade_MR = 0
    /\ ~oret.raised /\ oret.total = 0

\* a layer with non-positive thickness or modulus
Skipped(layer) == layer.thickness_inch <= 0 \/ layer.E_psi <= 0

Kept(layer) == ~Skipped(layer)

\* h * (E / subgrade_MR)^(1/3) * ((1 - 0.4^2) / (1 - 0.15^2))^(1/3)
EquivalentOf(layer) ==
    MulFx(MulFx(layer.thickness_inch,
                Exp2Fx((Log2Int(layer.E_psi) - Log2Int(subgrade_MR)) \div 3)),
          PowFx(DivFx(One - MulFx(Dec(40, 100), Dec(40, 100)),
                      One - MulFx(Dec(15, 100), Dec(15, 100))), 1, 3))

RECURSIVE SumEquivalent(_)
SumEquivalent(ls) ==
    IF ls = << >> THEN 0
    ELSE SumEquivalent(SubSeq(ls, 1, Len(ls) - 1)) + EquivalentOf(ls[Len(ls)])

\* C15: a layer with thickness_inch <= 0 or E_psi <= 0 is skipped: it raises
\* nothing, adds nothing to the total and has no breakdown entry, so that
\* the result is the one of the list without such layers.
C15_SkipsInvalid ==
    (opc = "returned" /\ (subgrade_MR > 0 \/ \A i \in 1..Len(layers) :
                                                Skipped(layers[i]))) =>
        LET kept == SelectSeq(layers, Kept)
        IN /\ ~oret.raised
           /\ oret.total = SumEquivalent(kept)
           /\ Len(oret.details) = Len(kept)
           /\ \A j \in 1..Len(kept) :
                 /\ Kept(layers[oret.details[j].layer])
                 /\ oret.details[j].h_actual_inch = kept[j].thickness_inch
                 /\ oret.details[j].E_psi = kept[j].E_psi

C15_Witness ==
    /\ opc = "returned" /\ Len(layers) = 2 /\ subgrade_MR > 0
    /\ Skipped(layers[1]) /\ Kept(layers[2])
    /\ Len(oret.details) = 1 /\ oret.details[1].layer = 2
    /\ oret.total > 0

RECURSIVE SumEquivInch(_)
\* the sum of the h_equiv_inch of breakdown entries
SumEquivInch(ds) ==
    IF ds = << >> THEN 0
    ELSE SumEquivInch(SubSeq(ds, 1, Len(ds) - 1)) + ds[Len(ds)].h_equiv_inch

\* C16: the breakdown lists the valid layers in input order, each entry
\* with the layer's actual thickness and its equivalent thickness, and the
\* total is the sum of the equivalent thicknesses of the entries.
C16_BreakdownOrdered ==
    (opc = "returned" /\ ~oret.raised) =>
        /\ \A j \in 1..Len(oret.details) :
              /\ oret.details[j].layer \in 1..Len(layers)
              /\ oret.details[j].h_actual_inch
                    = layers[oret.details[j].layer].thickness_inch
              /\ oret.details[j].h_equiv_inch
                    = EquivalentOf(layers[oret.details[j].layer])
              /\ j > 1 => oret.details[j - 1].layer < oret.details[j].layer
        /\ oret.total = SumEquivInch(oret.details)

C16_Witness ==
    /\ opc = "returned" /\ ~oret.raised /\ Len(oret.details) = 2
    /\ oret.details[1].h_actual_inch # oret.details[2].h_actual_inch
    /\ oret.details[1].h_equiv_inch > oret.details[1].h_actual_inch
    /\ oret.total = oret.details[1].h_equiv_inch + oret.details[2].h_equiv_inch

-----------------------------------------------------------------------------
(* Properties of calculate_W18_rigid (under SpecW).                        *)

\* the parameter bundle has positive Sc, Cd, J, Ec, k and delta_PSI
PositiveParams ==
    /\ params.Sc > 0 /\ params.Cd > 0 /\ params.J > 0
    /\ params.Ec > 0 /\ params.k > 0 /\ params.delta_PSI > 0

\* C17: for D >= 0 and positive parameters the call returns the sentinel
\* -999 exactly when Sc*Cd*(D^0.75 - 1.132) <= 0 or
\* 215.63*J*(D^0.75 - 18.42/(Ec/k)^0.25) <= 0; the logarithm of term2 is then
\* not evaluated, and no error is raised in either case.
C17_GuardSentinel ==
    (wpc = "returned" /\ wD >= 0 /\ PositiveParams) =>
        LET nonpositive == \/ inner_num(wD, params) <= 0
                           \/ inner_denom(wD, params) <= 0
        IN /\ wret.kind = "num"
           /\ (wret.val = -999 * One) <=> nonpositive
           /\ nonpositive => ~wlog
           /\ ~nonpositive => wlog

C17_Witness ==
    /\ wpc = "returned" /\ wD > 0 /\ PositiveParams
    /\ inner_num(wD, params) > 0 /\ inner_denom(wD, params) <= 0
    /\ wret = Num(-999 * One) /\ ~wlog

\* log10 W18 of the same parameters at another thickness
W18At(D) == calculate_W18_rigid(D, params)

\* the thicknesses above the one of the call at which the guard is silent
ThickerValid ==
    {D \in WDChoices : D >= wD /\ W18At(D).kind = "num"
                         /\ W18At(D).val # Sentinel}

\* C20: for fixed valid parameters log10 W18 is non-decreasing in D over the
\* thicknesses at which the domain guard does not fire.
C20_Monotone ==
    (wpc = "returned" /\ PositiveParams /\ wret.kind = "num"
       /\ wret.val # Sentinel) =>
        \A D \in ThickerValid : wret.val <= W18At(D).val

-----------------------------------------------------------------------------
(* find_required_thickness: exceptions and the range of the result.        *)

\* C22: find_required_thickness never lets an exception reach its caller,
\* whatever the arguments, W18_design <= 0 included: every error becomes
\* the result None.
C22_NeverPropagates == (pc = "done" /\ caller = "frt") => result.kind # "raise"

\* the positions at which the objective was evaluated by bisection_method
BisectionEvals == {evalAt[i] : i \in 3..Len(evalAt)}

InBracket(pos) == D_min <= pos /\ pos <= D_max

\* C23: with D_min < D_max every value find_required_thickness returns is
\* None, exactly D_max + 1, or a thickness of [D_min, D_max]; the endpoints
\* and midpoints of the bisection stay in the bracket at every iteration,
\* and so does the value it returns.
C23_ResultInRange ==
    /\ (pc = "done" /\ result.kind # "raise") =>
           \/ result = None
           \/ result.kind = "num" /\ result.val = D_max + PosOne
           \/ result.kind = "num" /\ InBracket(result.val)
    /\ \A pos \in BisectionEvals : InBracket(pos)
    /\ pc = "bis_loop" => InBracket(a) /\ InBracket(b) /\ a <= b
    /\ (pc = "done" /\ bisCalled /\ result.kind = "num") =>
           InBracket(result.val)

C23_Witness ==
    /\ pc = "done" /\ bisCalled /\ byLoop /\ iter >= 20
    /\ result.kind = "num" /\ D_min < result.val /\ result.val < D_max

-----------------------------------------------------------------------------
(* The loop of bisection_method.                                           *)

\* at the start of an iteration fa and fb are the values of func at the
\* endpoints and do not have the same strict sign
BracketsSignChange ==
    pc = "bis_loop" =>
        /\ fa = ValueAt(func, a)
        /\ fb = ValueAt(func, b)
        /\ Sgn(fa) * Sgn(fb) <= 0

\* an iteration replaces the endpoint whose value has the sign of f(c)
ReplacesSameSign ==
    /\ a' # a => Sgn(fa) = Sgn(fa')
    /\ b' # b => Sgn(fb) = Sgn(fb')

\* C26: for every f with f(a) * f(b) <= 0 at the call, each iteration
\* replaces the endpoint whose function value has the sign of f(c), and at
\* the start of every iteration fa = f(a), fb = f(b) and fa * fb <= 0.
C26_SignInvariant == []BracketsSignChange /\ [][ReplacesSameSign]_vars

\* the call searches the default bracket [6, 20] in
DefaultBracket == D_min = 6 * PosOne /\ D_max = 20 * PosOne

\* C27: with the default bracket [6, 20], tol = 1e-6 and max_iter = 100, a
\* search that find_required_thickness starts returns through a tolerance
\* test of the loop after fewer than 100 iterations, never through the
\* return that follows the loop, and every iteration halves the width of
\* the bracket exactly.
C27_DefaultConverges ==
    (caller = "frt" /\ DefaultBracket /\ bisCalled) =>
        /\ pc = "done" => byLoop /\ iter < 100 /\ result.kind = "num"
        /\ pc = "bis_loop" => (b - a) * 2^iter = D_max - D_min

C27_Witness ==
    /\ caller = "frt" /\ DefaultBracket /\ bisCalled
    /\ pc = "done" /\ byLoop /\ iter = 23
    /\ (b - a) * 2^iter = D_max - D_min

-----------------------------------------------------------------------------
(* calculate_composite_k_odemark and the layers that line 163 skips.       *)

\* the result of the call on the list without the skipped layers
WithoutSkipped ==
    calculate_composite_k_odemark(SelectSeq(layers, Kept), subgrade_MR,
                                  loss_of_support)

\* C28: for subgrade_MR > 0 and a layer list of which at least one layer is
\* valid, the returned (k_effective, k_composite, equivalent thickness) is
\* the one of the list without the layers of non-positive thickness or
\* modulus.
C28_SkippedAbsent ==
    (kpc = "returned" /\ subgrade_MR > 0
       /\ \E i \in 1..Len(layers) : Kept(layers[i])) =>
        /\ ~kret.raised
        /\ kret.k_effective = WithoutSkipped.k_effective
        /\ kret.k_composite = WithoutSkipped.k_composite
        /\ kret.h_equiv = WithoutSkipped.h_equiv

\* C29: for D_min < D_max the returned value tells the outcomes apart: the
\* value D_min is returned only when objective(D_min) > 0, the value
\* D_max + 1 only when objective(D_max) < 0, and a value of the bisection
\* search is neither D_min nor D_max + 1.
C29_Distinguishable ==
    (pc = "done" /\ caller = "frt" /\ result.kind = "num") =>
        /\ result.val = D_min => f_min > 0
        /\ result.val = D_max + PosOne => f_max < 0
        /\ bisCalled => result.val # D_min /\ result.val # D_max + PosOne

-----------------------------------------------------------------------------
(* The core functions called side by side on the same arguments: a call    *)
(* find_required_thickness or a direct call bisection_method, and one call *)
(* each of calculate_composite_k_odemark,                                  *)
(* calculate_odemark_equivalent_thickness and calculate_W18_rigid.         *)

\* layer lists with a layer that line 163 skips
CoreLayerLists ==
    { << >>,
      << [thickness_inch |-> 2 * One, E_psi |-> 362500] >>,
      << [thickness_inch |-> 2 * One, E_psi |-> 362500],
         [thickness_inch |-> 4 * One, E_psi |-> 0] >> }

InitCore ==
    /\ \/ /\ pc = "frt_start" /\ caller = "frt"
          /\ W18_design \in {0, 10^7}
          /\ D_min = 6 * PosOne /\ D_max = 20 * PosOne
          /\ func = Objective /\ a = 0 /\ b = 0
       \/ /\ pc = "bis_start" /\ caller = "direct"
          /\ W18_design = 1
          /\ D_min = 0 /\ D_max = 0
          /\ func \in {[id |-> "sq4", r |-> 0], [id |-> "lin", r |-> PosOne]}
          /\ a = 0 /\ b = 3 * PosOne
    /\ params = NoParams
    /\ log_W18_design = 0
    /\ f_min = 0
    /\ f_max = 0
    /\ tol = DefaultTol
    /\ max_iter = default_max_iter
    /\ fa = 0
    /\ fb = 0
    /\ iter = 0
    /\ result = Pending
    /\ IdleHist
    /\ layers \in CoreLayerLists
    /\ subgrade_MR = 7500
    /\ loss_of_support = One
    /\ kpc = "idle"
    /\ kret = [raised |-> FALSE]
    /\ opc = "idle"
    /\ oret = [raised |-> FALSE]
    /\ wD = 8 * One
    /\ wpc = "idle"
    /\ wret = Pending
    /\ wlog = FALSE
    /\ IdlePage

NextCore ==
    \/ FRT_Start
    \/ FRT_EvalMin
    \/ FRT_EvalMax
    \/ FRT_Decide
    \/ Bis_Start
    \/ Bis_Loop
    \/ K_Call
    \/ O_Call
    \/ W_Call

SpecCore == InitCore /\ [][NextCore]_vars

\* the arguments of the calls
CoreInputs ==
    <<layers, subgrade_MR, loss_of_support, params, W18_design, D_min, D_max,
      wD, func, tol, max_iter>>

\* what belongs to the call of find_required_thickness or bisection_method,
\* of calculate_composite_k_odemark, of
\* calculate_odemark_equivalent_thickness and of calculate_W18_rigid
SolverState == <<pc, result, log_W18_design, f_min, f_max, a, b, fa, fb, iter,
                 histVars>>

CompositeState == <<kpc, kret>>

OdemarkState == <<opc, oret>>

W18State == <<wpc, wret, wlog>>

\* a step writes the state of one call only
WritesOneCall ==
    /\ SolverState' # SolverState =>
           UNCHANGED <<CompositeState, OdemarkState, W18State>>
    /\ CompositeState' # CompositeState =>
           UNCHANGED <<SolverState, OdemarkState, W18State>>
    /\ OdemarkState' # OdemarkState =>
           UNCHANGED <<SolverState, CompositeState, W18State>>
    /\ W18State' # W18State =>
           UNCHANGED <<SolverState, CompositeState, OdemarkState>>

\* C21: the core functions leave their arguments as they were: the layer
\* list with each of its layer records and the params bundle hold the same
\* values after a call as before it, and a call writes nothing outside
\* itself.
C21_InputsUnchanged == [][UNCHANGED CoreInputs /\ WritesOneCall]_vars

C21_Witness ==
    /\ pc = "done" /\ bisCalled /\ result.kind = "num"
    /\ kpc = "returned" /\ opc = "returned" /\ wpc = "returned"
    /\ Len(layers) = 2 /\ Len(oret.details) = 1
    /\ params = NoParams

-----------------------------------------------------------------------------
(* The design thickness of the rigid-pavement page (lines 700-718).        *)
(* D_required is counted in tenths of an inch, D_design_inch in 1/127 in,  *)
(* which holds both cm / 2.54 and 14 in exactly.                           *)

\* math.ceil(D_required * 2): the half inches of line 702
ceil_half_inches(d) == (2 * d + 9) \div 10

\* round(n / den) of Python: to the nearest integer, a tie to the even one
round_half_even(n, den) ==
    LET q == n \div den
        r == n % den
    IN IF 2 * r < den THEN q
       ELSE IF 2 * r > den THEN q + 1
       ELSE IF q % 2 = 0 THEN q ELSE q + 1

\* round(inch_to_cm(D_design_inch)) for D_design_inch = k / 2 (line 703)
rounded_cm(k) == round_half_even(k * 127, 100)

\* line 706
standard_thicknesses == {28, 30, 32, 35, 36}

\* min([t for t in standard_thicknesses if t >= D_design_cm], default=36)
standard_cm(cm) ==
    LET fit == {t \in standard_thicknesses : t >= cm}
    IN IF fit = {} THEN 36 ELSE CHOOSE t \in fit : \A u \in fit : t <= u

\* the condition of line 701: D_required and D_required <= 20
required_in_range(r) == r.kind = "num" /\ r.val # 0 /\ r.val <= 200

\* lines 701-718
Select_Design ==
    /\ dpc = "idle"
    /\ dpc' = "selected"
    /\ IF required_in_range(D_required)
       THEN LET cm == standard_cm(rounded_cm(ceil_half_inches(D_required.val)))
            IN D_design_cm' = cm /\ D_design_inch' = 50 * cm
       ELSE D_design_cm' = 36 /\ D_design_inch' = 14 * 127
    /\ UNCHANGED <<pc, caller, result, frtVars, bisVars, histVars, kVars,
                   wVars, D_required, esalVars, uiVars>>

\* no call of the core functions is under way
IdleCore ==
    /\ pc = "idle"
    /\ caller = "direct"
    /\ W18_design = 1
    /\ params = NoParams
    /\ D_min = 0
    /\ D_max = 0
    /\ log_W18_design = 0
    /\ f_min = 0
    /\ f_max = 0
    /\ func = Objective
    /\ a = 0
    /\ b = 0
    /\ tol = DefaultTol
    /\ max_iter = default_max_iter
    /\ fa = 0
    /\ fb = 0
    /\ iter = 0
    /\ result = Pending
    /\ IdleHist
    /\ IdleK
    /\ IdleW

\* D_required up to 21 in, the value D_max + 1 of the default bracket
MaxTenthD == 210

\* what find_required_thickness returned: None or a thickness
RequiredChoices == {None} \cup {Num(d) : d \in 0..MaxTenthD}

InitD ==
    /\ IdleCore
    /\ D_required \in RequiredChoices
    /\ D_design_inch = 0
    /\ D_design_cm = 0
    /\ dpc = "idle"
    /\ IdleEsal
    /\ IdleUi

NextD == Select_Design

SpecD == InitD /\ [][NextD]_vars

\* C30: whenever 0 < D_required <= 20 in, the design thickness chosen
\* (D_required rounded up to the next half inch, converted to whole cm,
\* raised to the smallest standard thickness of {28, 30, 32, 35, 36} cm not
\* below it, 36 cm if there is none) is at least D_required.
C30_DesignCovers ==
    (dpc = "selected" /\ D_required.kind = "num" /\ 0 < D_required.val
       /\ D_required.val <= 200) =>
        /\ D_design_inch * 10 >= D_required.val * 127
        /\ D_design_cm * 1000 >= D_required.val * 254

-----------------------------------------------------------------------------
(* ESAL calculator: calculate_esal (esal_calculator.py, lines 126-150).    *)
(* ADT is a whole number of vehicles per day, a truck factor is counted in *)
(* 1/10000, lane_factor and direction_factor in halves, and an ESAL in     *)
(* 1/40000, so that the products and the sums are exact.                   *)

\* TRUCKS.keys(), in the order of the dict (lines 18-65)
TruckCodes == <<"MB", "HB", "MT", "HT", "STR", "TR">>

Codes == {TruckCodes[i] : i \in 1..Len(TruckCodes)}

cell_esal_without_direction(aadt, tf, lf, df) == aadt * tf * lf * 365

\* line 140: esal = aadt * tf * lane_factor * direction_factor * 365
cell_esal(aadt, tf, lf, df) == aadt * tf * lf * df * 365

\* lines 136-144: year_esal after the first n truck codes
RECURSIVE year_esal_upto(_, _, _, _, _, _)
year_esal_upto(row, columns, tfs, lf, df, n) ==
    IF n = 0 THEN 0
    ELSE LET code == TruckCodes[n]
             before == year_esal_upto(row, columns, tfs, lf, df, n - 1)
         IN IF code \in columns
            THEN before + cell_esal(row[code], tfs[code], lf, df)
            ELSE before

\* lines 132-147: the year_data of the row at index idx, counted from 0
year_data(table, idx, tfs, lf, df) ==
    LET row == table.rows[idx + 1]
        present == {code \in Codes : code \in table.columns}
    IN [ Year  |-> IF "Year" \in table.columns THEN row["Year"] ELSE idx + 1,
         cells |-> [code \in present |->
                       [ ADT  |-> row[code],
                         TF   |-> tfs[code],
                         ESAL |-> cell_esal(row[code], tfs[code], lf, df) ]],
         Total_ESAL |-> year_esal_upto(row, table.columns, tfs, lf, df,
                                       Len(TruckCodes)) ]

\* line 146: total_esal after the first n rows
RECURSIVE total_esal_upto(_, _, _, _, _)
total_esal_upto(table, tfs, lf, df, n) ==
    IF n = 0 THEN 0
    ELSE total_esal_upto(table, tfs, lf, df, n - 1)
           + year_data(table, n - 1, tfs, lf, df).Total_ESAL

calculate_esal(table, tfs, lf, df) ==
    [ results    |-> [i \in 1..Len(table.rows) |->
                         year_data(table, i - 1, tfs, lf, df)],
      total_esal |-> total_esal_upto(table, tfs, lf, df, Len(table.rows)) ]

\* the call of lines 379-381
E_Call ==
    /\ epc = "idle"
    /\ epc' = "returned"
    /\ eret' = calculate_esal(traffic_df, truck_factors, lane_factor,
                              direction_factor)
    /\ UNCHANGED <<pc, caller, result, frtVars, bisVars, histVars, kVars,
                   wVars, designVars, traffic_df, truck_factors, lane_factor,
                   direction_factor, uiVars>>

\* the number of years of the traffic table
MaxYears == 2

AllColumns == Codes \cup {"Year"}

\* the columns of the uploaded table: the template's, no Year column, two
\* truck codes only, and no truck code
ColumnChoices ==
    {AllColumns, Codes, {"Year", "MB", "HT"}, {"Year", "HB", "TR", "Note"},
     {"Year"}}

\* vehicles per day of a year
AdtChoices ==
    { [MB |-> 1, HB |-> 1, MT |-> 2, HT |-> 1, STR |-> 1, TR |-> 1],
      [MB |-> 2, HB |-> 0, MT |-> 0, HT |-> 2, STR |-> 1, TR |-> 0] }

\* the row of year y with the given vehicles, under the given columns
RowOf(columns, adt, y) ==
    [c \in columns |-> IF c \in Codes THEN adt[c]
                       ELSE IF c = "Year" THEN 2560 + y ELSE 0]

TrafficChoices ==
    UNION { { [columns |-> cols,
               rows |-> [y \in 1..n |-> RowOf(cols, q[y], y)]] :
              q \in [1..n -> AdtChoices] } :
            cols \in ColumnChoices, n \in 0..MaxYears }

\* the truck factors of the flexible pavement, pt = 2.0, SN = 7 (lines
\* 102-109), and the same with the first two typed over
FactorChoices ==
    { [MB |-> 3116, HB |-> 6534, MT |-> 30364, HT |-> 28131, STR |-> 55286,
       TR |-> 53023],
      [MB |-> 0, HB |-> 10000, MT |-> 30364, HT |-> 28131, STR |-> 55286,
       TR |-> 53023] }

\* 0.5 and 1.0, in halves
HalfChoices == {1, 2}

InitE ==
    /\ IdleCore
    /\ IdleDesign
    /\ IdleUi
    /\ traffic_df \in TrafficChoices
    /\ truck_factors \in FactorChoices
    /\ lane_factor \in HalfChoices
    /\ direction_factor \in HalfChoices
    /\ epc = "idle"
    /\ eret = [total_esal |-> 0]

NextE == E_Call

SpecE == InitE /\ [][NextE]_vars

-----------------------------------------------------------------------------
(* Properties of calculate_esal (under SpecE).                             *)

\* ADT * TF * lane_factor * direction_factor * 365 of a row and a truck
\* code, nothing for a code that is no column of the table
Contribution(i, code) ==
    IF code \in traffic_df.columns
    THEN traffic_df.rows[i][code] * truck_factors[code] * lane_factor
           * direction_factor * 365
    ELSE 0

\* the sum of the contributions of a row over the given truck codes
RECURSIVE RowSum(_, _)
RowSum(i, S) ==
    IF S = {} THEN 0
    ELSE LET code == CHOOSE c \in S : TRUE
         IN Contribution(i, code) + RowSum(i, S \ {code})

\* the sum over the rows from i on of f[i]
RECURSIVE SumFrom(_, _)
SumFrom(f, i) ==
    IF i > Len(traffic_df.rows) THEN 0 ELSE f[i] + SumFrom(f, i + 1)

\* C25: the total returned by calculate_esal is the sum over all rows and
\* the six truck codes of ADT * TF * lane_factor * direction_factor * 365,
\* a truck code that is no column of the table contributing nothing; the
\* Total_ESAL of each row is the sum of that row over the truck codes
\* present as columns, and the total is the sum of the rows' Total_ESAL.
C25_TotalIsSum ==
    epc = "returned" =>
        LET years == 1..Len(traffic_df.rows)
            present == Codes \cap traffic_df.columns
        IN /\ DOMAIN eret.results = years
           /\ eret.total_esal = SumFrom([i \in years |-> RowSum(i, Codes)], 1)
           /\ \A i \in years :
                 /\ eret.results[i].Total_ESAL = RowSum(i, present)
                 /\ DOMAIN eret.results[i].cells = present
                 /\ \A code \in present :
                       eret.results[i].cells[code].ESAL
                         = Contribution(i, code)
           /\ eret.total_esal
                = SumFrom([i \in years |-> eret.results[i].Total_ESAL], 1)

C25_Witness ==
    /\ epc = "returned" /\ Len(traffic_df.rows) = 2
    /\ "MB" \in traffic_df.columns /\ "TR" \notin traffic_df.columns
    /\ direction_factor = 1
    /\ eret.results[1].Total_ESAL > 0 /\ eret.results[2].Total_ESAL > 0
    /\ eret.total_esal > eret.results[1].Total_ESAL

-----------------------------------------------------------------------------
(* ESAL calculator: the truck factors of the sidebar (esal_calculator.py,  *)
(* lines 249-322).  The script runs from top to bottom after every user    *)
(* event.  A number input is the widget of its key and its arguments, the  *)
(* argument value among them: the runtime returns the value it holds for   *)
(* that widget, or the argument value when it holds none, and at the end   *)
(* of a run, the run that st.rerun() ends included, it forgets the widgets *)
(* the run did not call.                                                   *)

\* the row of a table: param -> truck factor, in 1/10000
TableRow(first, t) == [p \in first..(first + Len(t) - 1) |-> t[p - first + 1]]

\* lines 72-79
TRUCK_FACTORS_RIGID_PT25 ==
    [ MB  |-> TableRow(10, <<7327, 7318, 7314, 7312, 7311>>),
      HB  |-> TableRow(10, <<14579, 14623, 14643, 14653, 14659>>),
      MT  |-> TableRow(10, <<36578, 37113, 37383, 37520, 37591>>),
      HT  |-> TableRow(10, <<59211, 60928, 61867, 62362, 62626>>),
      STR |-> TableRow(10, <<117203, 120643, 122523, 123516, 124044>>),
      TR  |-> TableRow(10, <<131410, 134203, 135684, 136454, 136860>>) ]

\* lines 82-89
TRUCK_FACTORS_RIGID_PT20 ==
    [ MB  |-> TableRow(10, <<5765, 5758, 5755, 5754, 5753>>),
      HB  |-> TableRow(10, <<11691, 11725, 11740, 11748, 11752>>),
      MT  |-> TableRow(10, <<30458, 30879, 31091, 31197, 31252>>),
      HT  |-> TableRow(10, <<49862, 51310, 52101, 52518, 52740>>),
      STR |-> TableRow(10, <<98709, 101609, 103192, 104028, 104474>>),
      TR  |-> TableRow(10, <<80167, 81311, 81891, 82185, 82339>>) ]

\* lines 92-99
TRUCK_FACTORS_FLEX_PT25 ==
    [ MB  |-> TableRow(4, <<4788, 4368, 4116, 3990>>),
      HB  |-> TableRow(4, <<9002, 8580, 8295, 8146>>),
      MT  |-> TableRow(4, <<30695, 32038, 34511, 36452>>),
      HT  |-> TableRow(4, <<30536, 31575, 33118, 34218>>),
      STR |-> TableRow(4, <<59557, 61828, 65016, 67265>>),
      TR  |-> TableRow(4, <<60018, 61519, 63433, 64731>>) ]

\* lines 102-109
TRUCK_FACTORS_FLEX_PT20 ==
    [ MB  |-> TableRow(4, <<3665, 3376, 3202, 3116>>),
      HB  |-> TableRow(4, <<7089, 6814, 6626, 6534>>),
      MT  |-> TableRow(4, <<25455, 26613, 28713, 30364>>),
      HT  |-> TableRow(4, <<25080, 25937, 27220, 28131>>),
      STR |-> TableRow(4, <<48886, 50778, 53438, 55286>>),
      TR  |-> TableRow(4, <<49138, 50387, 51978, 53023>>) ]

\* lines 112-124; pt is counted in tenths
get_default_truck_factor(truck_code, pavement_type, pt, param) ==
    IF pavement_type = "rigid"
    THEN IF pt = 25 THEN TRUCK_FACTORS_RIGID_PT25[truck_code][param]
         ELSE TRUCK_FACTORS_RIGID_PT20[truck_code][param]
    ELSE IF pt = 25 THEN TRUCK_FACTORS_FLEX_PT25[truck_code][param]
         ELSE TRUCK_FACTORS_FLEX_PT20[truck_code][param]

\* the options of the select boxes (lines 249-274)
PavementOptions == {"rigid", "flexible"}

PtOptions == {25, 20}

ParamOptions(pavement_type) ==
    IF pavement_type = "rigid" THEN 10..14 ELSE 4..7

\* the first option, which a select box shows when it appears
FirstParam(pavement_type) == IF pavement_type = "rigid" THEN 10 ELSE 4

\* line 290: tf_key = f"tf_{pavement_type}_{pt}_{param}"
tf_key(sel) == <<"tf", sel.pavement_type, sel.pt, sel.param>>

\* the defaults of a selection, for every truck code
default_factors(sel) ==
    [code \in Codes |->
        get_default_truck_factor(code, sel.pavement_type, sel.pt, sel.param)]

\* lines 291-294: the entry of the key is created with the defaults
with_entry(ss, sel) ==
    IF tf_key(sel) \in DOMAIN ss THEN ss
    ELSE [k \in DOMAIN ss \cup {tf_key(sel)} |->
             IF k = tf_key(sel) THEN default_factors(sel) ELSE ss[k]]

reset_entry_skipped(ss, sel) == ss

\* lines 298-299: the entry of the key is set to the defaults
reset_entry(ss, sel) == [ss EXCEPT ![tf_key(sel)] = default_factors(sel)]

\* the widget of the number input of a truck code: its key (line 317) and
\* its argument value (line 314)
widget_of(sel, code, value) == <<<<"input", tf_key(sel), code>>, value>>

\* lines 307-308: current_val of a truck code
current_val(ss, sel, code) == ss[tf_key(sel)][code]

\* lines 310-319: what st.number_input returns
new_val(ss, ws, sel, code) ==
    LET w == widget_of(sel, code, current_val(ss, sel, code))
    IN IF w \in DOMAIN ws THEN ws[w] ELSE current_val(ss, sel, code)

\* the number inputs the loop of lines 306-322 calls
rendered(ss, sel) ==
    {widget_of(sel, code, current_val(ss, sel, code)) : code \in Codes}

\* the truck code of a number input
code_of(w) == w[1][3]

\* the frontend shows the number inputs of the run: one it showed already
\* keeps the value it holds (keep) or takes the value of the run, a new
\* one takes the value of the run
shown(fe, ss, ws, sel, keep) ==
    [w \in rendered(ss, sel) |->
        IF keep /\ w \in DOMAIN fe THEN fe[w]
        ELSE new_val(ss, ws, sel, code_of(w))]

\* a run of the script (lines 249-322): either the reset of lines 297-300,
\* which ends the run with st.rerun(), or the number inputs of lines
\* 306-322
Script_Run ==
    /\ upc = "pending"
    /\ LET ss == with_entry(session_state, selection)
       IN IF button
          THEN /\ session_state' = reset_entry(ss, selection)
               /\ widget_state' = NoState
               /\ button' = FALSE
               /\ resetRerun' = TRUE
               /\ UNCHANGED <<truck_factors, frontend, upc, afterReset>>
          ELSE /\ truck_factors' =
                      [code \in Codes |->
                          new_val(ss, widget_state, selection, code)]
               /\ session_state' =
                      [ss EXCEPT ![tf_key(selection)] = truck_factors']
               /\ widget_state' =
                      [w \in rendered(ss, selection) |->
                          new_val(ss, widget_state, selection, code_of(w))]
               /\ \E keep \in BOOLEAN :
                      frontend' = shown(frontend, ss, widget_state, selection,
                                        keep)
               /\ upc' = "ready"
               /\ afterReset' = resetRerun
               /\ resetRerun' = FALSE
               /\ UNCHANGED button
    /\ UNCHANGED <<pc, caller, result, frtVars, bisVars, histVars, kVars,
                   wVars, designVars, traffic_df, lane_factor,
                   direction_factor, epc, eret, selection, events>>

\* the number of user events of a session
MaxEvents == 4

\* the user events reach the script as a new run, to which the frontend
\* sends the values it holds
UserEvent ==
    /\ upc = "ready"
    /\ events < MaxEvents
    /\ events' = events + 1
    /\ upc' = "pending"
    /\ UNCHANGED <<pc, caller, result, frtVars, bisVars, histVars, kVars,
                   wVars, designVars, esalVars, session_state, resetRerun,
                   afterReset>>

\* the truck codes whose input the user edits, and what the user types
EditedCodes == {"MB", "TR"}

TypedChoices == {0, 500000}

\* the user types a value into the number input of a truck code
User_Type ==
    /\ UserEvent
    /\ \E w \in DOMAIN frontend, v \in TypedChoices :
          /\ code_of(w) \in EditedCodes
          /\ v # frontend[w]
          /\ frontend' = [frontend EXCEPT ![w] = v]
    /\ widget_state' = frontend'
    /\ UNCHANGED <<selection, button>>

\* the user chooses another pavement type; the select box of D or SN
\* appears with its first option
User_Select_Pavement ==
    /\ UserEvent
    /\ \E t \in PavementOptions \ {selection.pavement_type} :
          selection' = [selection EXCEPT !.pavement_type = t,
                                         !.param = FirstParam(t)]
    /\ widget_state' = frontend
    /\ UNCHANGED <<frontend, button>>

\* the user chooses another pt
User_Select_pt ==
    /\ UserEvent
    /\ \E p \in PtOptions \ {selection.pt} :
          selection' = [selection EXCEPT !.pt = p]
    /\ widget_state' = frontend
    /\ UNCHANGED <<frontend, button>>

\* the user chooses another D or SN
User_Select_Param ==
    /\ UserEvent
    /\ \E v \in ParamOptions(selection.pavement_type) \ {selection.param} :
          selection' = [selection EXCEPT !.param = v]
    /\ widget_state' = frontend
    /\ UNCHANGED <<frontend, button>>

\* the user presses the reset button of line 297
User_Reset ==
    /\ UserEvent
    /\ button' = TRUE
    /\ widget_state' = frontend
    /\ UNCHANGED <<selection, frontend>>

\* the page is opened: the first run is due
InitUi ==
    /\ IdleCore
    /\ IdleDesign
    /\ IdleEsal
    /\ selection = FirstSelection
    /\ session_state = NoState
    /\ widget_state = NoState
    /\ frontend = NoState
    /\ button = FALSE
    /\ upc = "pending"
    /\ events = 0
    /\ resetRerun = FALSE
    /\ afterReset = FALSE

NextUi ==
    \/ Script_Run
    \/ User_Type
    \/ User_Select_Pavement
    \/ User_Select_pt
    \/ User_Select_Param
    \/ User_Reset

SpecUi == InitUi /\ [][NextUi]_vars

\* C24: when the user has pressed the reset button and the script has run
\* again, the truck factor used for every truck code is the default of the
\* table for the current pavement type, pt and D or SN, whatever the user
\* had typed into the inputs before.
C24_ResetGivesDefaults ==
    (upc = "ready" /\ afterReset) =>
        \A code \in Codes :
            truck_factors[code]
              = get_default_truck_factor(code, selection.pavement_type,
                                         selection.pt, selection.param)

\* the factor of TR was typed over for the current selection, and the
\* reset brought the default back
C24_Witness ==
    /\ upc = "ready" /\ afterReset /\ events >= 2
    /\ selection.pavement_type = "flexible"
    /\ truck_factors["TR"] = 60018
    /\ \E w \in DOMAIN frontend : code_of(w) = "TR" /\ frontend[w] = 500000

=============================================================================
